---------------------------- MODULE Spec2Model ----------------------------
(***************************************************************************)
(* Model of the NEAR-Kotlin-RPC generator scripts:                         *)
(*   scripts/fix_openapi_spec.py  - the four-pass schema repair            *)
(*   scripts/openapi_fixes.py     - endpoint collapsing and the Kotlin     *)
(*                                  source rewrite pipeline                *)
(* JSON values are tagged records [t, v]; strings are TLA+ strings, read   *)
(* character by character with SubSeq.                                     *)
(***************************************************************************)
EXTENDS Integers, Sequences, FiniteSets, TLC

VARIABLES
    pc,        \* position inside the running entry point
    runs,      \* number of completed runs of the entry point
    file,      \* the schema document on disk (json.load / json.dump)
    spec,      \* the document in memory while an entry point runs
    input,     \* the document as it was before the first run
    out1,      \* the document on disk after the first run
    path_order,       \* the keys of the file's path table, in file order
    kt_file,          \* a generated Kotlin file on disk
    content,          \* its text in memory while the rewrite passes run
    original_content, \* the text as it was read
    prev,             \* the text before the pass that ran last
    kt_input,         \* the Kotlin file before the first run
    kt_out1,          \* the Kotlin file after the first run
    argv,             \* sys.argv of a command invocation
    fs,               \* the file system: path -> entry
    exit_status,      \* the exit status of the invocation, -1 while it runs
    written           \* the paths the invocation has written

doc_vars == <<file, spec, input, out1, path_order>>
kt_vars == <<kt_file, content, original_content, prev, kt_input, kt_out1>>
cli_vars == <<argv, fs, exit_status, written>>
vars == <<pc, runs, doc_vars, kt_vars, cli_vars>>

(***************************************************************************)
(* The value of the variables an entry point does not use                  *)
(***************************************************************************)
KtIdle ==
    /\ kt_file = ""
    /\ content = ""
    /\ original_content = ""
    /\ prev = ""
    /\ kt_input = ""
    /\ kt_out1 = ""

CliIdle ==
    /\ argv = <<>>
    /\ fs = <<>>
    /\ exit_status = -1
    /\ written = {}

(***************************************************************************)
(* JSON values                                                             *)
(***************************************************************************)
Str(s) == [t |-> "str", v |-> s]
Bool(b) == [t |-> "bool", v |-> b]
Lst(q) == [t |-> "list", v |-> q]
Dict(f) == [t |-> "dict", v |-> f]
EmptyDict == Dict(<<>>)

IsDict(n) == n.t = "dict"
IsList(n) == n.t = "list"
Keys(n) == DOMAIN n.v
Has(n, k) == IsDict(n) /\ k \in DOMAIN n.v
Get(n, k) == n.v[k]
Put(n, k, x) == Dict((k :> x) @@ n.v)
Del(n, k) == Dict([j \in (DOMAIN n.v) \ {k} |-> n.v[j]])

\* Python truth value of a JSON value
Truthy(n) ==
    CASE n.t = "str" -> n.v # ""
      [] n.t = "bool" -> n.v
      [] n.t = "list" -> Len(n.v) > 0
      [] n.t = "dict" -> DOMAIN n.v # {}

\* truth value of dict.get(k): a missing key gives None
GetTruthy(n, k) == Has(n, k) /\ Truthy(Get(n, k))

(***************************************************************************)
(* Python string methods                                                   *)
(***************************************************************************)
Ch(s, i) == SubSeq(s, i, i)

\* sub in s
Contains(s, sub) ==
    \E i \in 1..(Len(s) - Len(sub) + 1) : SubSeq(s, i, i + Len(sub) - 1) = sub

\* s.startswith(p)
StartsWith(s, p) == Len(s) >= Len(p) /\ SubSeq(s, 1, Len(p)) = p

\* s.split('/')[-1]
LastSegment(s) ==
    LET slashes == {i \in 1..Len(s) : Ch(s, i) = "/"}
        last == IF slashes = {} THEN 0
                ELSE CHOOSE i \in slashes : \A j \in slashes : j <= i
    IN SubSeq(s, last + 1, Len(s))

\* s.strip('/')
StripSlashes(s) ==
    LET keep == {i \in 1..Len(s) : Ch(s, i) # "/"}
    IN IF keep = {} THEN ""
       ELSE LET lo == CHOOSE i \in keep : \A j \in keep : i <= j
                hi == CHOOSE i \in keep : \A j \in keep : j <= i
            IN SubSeq(s, lo, hi)

UpperLetters == "ABCDEFGHIJKLMNOPQRSTUVWXYZ"
LowerLetters == "abcdefghijklmnopqrstuvwxyz"
Digits == "0123456789"

IsUpperCh(c) == \E i \in 1..26 : Ch(UpperLetters, i) = c
IsLowerCh(c) == \E i \in 1..26 : Ch(LowerLetters, i) = c
IsDigitCh(c) == \E i \in 1..10 : Ch(Digits, i) = c

LowerCh(c) ==
    IF IsUpperCh(c)
    THEN Ch(LowerLetters, CHOOSE i \in 1..26 : Ch(UpperLetters, i) = c)
    ELSE c

UpperCh(c) ==
    IF IsLowerCh(c)
    THEN Ch(UpperLetters, CHOOSE i \in 1..26 : Ch(LowerLetters, i) = c)
    ELSE c

RECURSIVE Lower(_)
\* s.lower()
Lower(s) == IF s = "" THEN "" ELSE LowerCh(Ch(s, 1)) \o Lower(Tail(s))

(***************************************************************************)
(* scripts/fix_openapi_spec.py                                             *)
(***************************************************************************)
RefPrefix == "#/components/schemas/"

\* spec.get('components', {}).get('schemas', {})
Schemas(d) ==
    IF Has(d, "components") /\ Has(Get(d, "components"), "schemas")
    THEN Get(Get(d, "components"), "schemas")
    ELSE EmptyDict

\* the document with its named-schema table replaced (the passes assign into
\* the table they got from the document; a table made up by .get() is lost)
WithSchemas(d, tbl) ==
    IF Has(d, "components") /\ Has(Get(d, "components"), "schemas")
    THEN Put(d, "components", Put(Get(d, "components"), "schemas", tbl))
    ELSE d

StringSchema(desc) == Dict("type" :> Str("string") @@ "description" :> Str(desc))

empty_schema_fixes ==
    "AccountId" :> StringSchema("NEAR Account Identifier")
 @@ "CryptoHash" :> StringSchema("Cryptographic hash")
 @@ "PublicKey" :> StringSchema("Public key")
 @@ "FunctionArgs" :>
       Dict("type" :> Str("string") @@ "format" :> Str("byte")
            @@ "description" :> Str("Base64-encoded function arguments"))
 @@ "CreateAccountAction" :>
       Dict("type" :> Str("object")
            @@ "properties" :> Dict("type" :>
                  Dict("type" :> Str("string")
                       @@ "enum" :> Lst(<<Str("CreateAccount")>>)
                       @@ "default" :> Str("CreateAccount")))
            @@ "required" :> Lst(<<Str("type")>>))
 @@ "ShardId" :>
       Dict("type" :> Str("integer") @@ "format" :> Str("int64")
            @@ "description" :> Str("Shard identifier"))
 @@ "NearGas" :> StringSchema("NEAR Gas amount")
 @@ "AccountIdValidityRulesVersion" :>
       Dict("type" :> Str("integer")
            @@ "description" :> Str("Account ID validity rules version"))
 @@ "MutableConfigValue" :>
       Dict("type" :> Str("object")
            @@ "properties" :> Dict("value" :>
                  Dict("type" :> Str("string")
                       @@ "description" :> Str("Configuration value"))))
 @@ "RpcSplitStorageInfoRequest" :>
       Dict("type" :> Str("object")
            @@ "properties" :> Dict("request_type" :>
                  Dict("type" :> Str("string")
                       @@ "default" :> Str("split_storage_info"))))

\* the test of fix_empty_schemas: none of the six keys has a true value
IsEmptySchema(schema) ==
    /\ ~GetTruthy(schema, "properties")
    /\ ~GetTruthy(schema, "enum")
    /\ ~GetTruthy(schema, "anyOf")
    /\ ~GetTruthy(schema, "oneOf")
    /\ ~GetTruthy(schema, "allOf")
    /\ ~GetTruthy(schema, "type")

EmptyFix(name) ==
    IF name \in DOMAIN empty_schema_fixes
    THEN empty_schema_fixes[name]
    ELSE StringSchema("Auto-fixed empty schema for " \o name)

fix_empty_schemas(d) ==
    LET schemas == Schemas(d)
    IN WithSchemas(d, Dict([name \in Keys(schemas) |->
           IF IsEmptySchema(Get(schemas, name))
           THEN EmptyFix(name)
           ELSE Get(schemas, name)]))

BlockIdSchema(desc) ==
    Dict("type" :> Str("object")
         @@ "description" :> desc
         @@ "properties" :> Dict(
               "block_hash" :> StringSchema("Block hash")
            @@ "block_height" :>
                  Dict("type" :> Str("integer") @@ "format" :> Str("int64")
                       @@ "description" :> Str("Block height"))))

\* schema.get('description', '')
DescriptionOr(schema) ==
    IF Has(schema, "description") THEN Get(schema, "description") ELSE Str("")

\* the property name an anyOf alternative gets in the Rpc...Request branch
RpcPropertyKey(item) ==
    IF Has(item, "$ref") THEN Lower(LastSegment(Get(item, "$ref").v))
    ELSE IF Has(item, "title") THEN Get(item, "title").v
    ELSE "value"

RECURSIVE RpcProperties(_, _)
\* the properties dict built by the loop over anyof_items: a later
\* alternative overwrites an earlier one with the same key
RpcProperties(items, n) ==
    IF n = 0 THEN <<>>
    ELSE LET item == items[n]
             rest == RpcProperties(items, n - 1)
         IN IF Has(item, "$ref") \/ Has(item, "type")
            THEN (RpcPropertyKey(item) :> item) @@ rest
            ELSE rest

NullSchema == Dict("type" :> Str("null"))

\* the alternatives the last branch may pick: true and not {'type': 'null'}
Pickable(items) == {i \in 1..Len(items) : Truthy(items[i]) /\ items[i] # NullSchema}

FixAnyofOne(name, schema) ==
    IF ~Has(schema, "anyOf") THEN schema
    ELSE LET anyof_items == Get(schema, "anyOf").v
         IN IF name = "BlockId" THEN BlockIdSchema(DescriptionOr(schema))
            ELSE IF Contains(name, "Rpc") /\ Contains(name, "Request")
            THEN LET properties == RpcProperties(anyof_items, Len(anyof_items))
                 IN IF DOMAIN properties # {}
                    THEN Dict("type" :> Str("object")
                              @@ "description" :> DescriptionOr(schema)
                              @@ "properties" :> Dict(properties))
                    ELSE schema
            ELSE IF Pickable(anyof_items) # {}
            THEN anyof_items[CHOOSE i \in Pickable(anyof_items) :
                                \A j \in Pickable(anyof_items) : i <= j]
            ELSE schema

fix_anyof_schemas(d) ==
    LET schemas == Schemas(d)
    IN WithSchemas(d, Dict([name \in Keys(schemas) |->
           FixAnyofOne(name, Get(schemas, name))]))

\* one iteration of the loop of fix_problematic_patterns; both tests read the
\* schema the iteration started with
FixPatternOne(schemas, name) ==
    LET schema == Get(schemas, name)
        promoted == IF Cardinality(Keys(schema)) = 1 /\ Has(schema, "description")
                    THEN StringSchema(Get(schema, "description").v)
                    ELSE schema
    IN IF /\ Has(schema, "$ref")
          /\ StartsWith(Get(schema, "$ref").v, RefPrefix)
          /\ LastSegment(Get(schema, "$ref").v) \notin Keys(schemas)
       THEN StringSchema("Reference to " \o LastSegment(Get(schema, "$ref").v))
       ELSE promoted

fix_problematic_patterns(d) ==
    LET schemas == Schemas(d)
    IN WithSchemas(d, Dict([name \in Keys(schemas) |-> FixPatternOne(schemas, name)]))

RECURSIVE remove_pattern_props(_)
remove_pattern_props(obj) ==
    IF IsDict(obj)
    THEN LET kept == Keys(obj) \ {"patternProperties"}
         IN Dict([k \in kept |-> remove_pattern_props(Get(obj, k))])
    ELSE IF IsList(obj)
    THEN Lst([i \in 1..Len(obj.v) |-> remove_pattern_props(obj.v[i])])
    ELSE obj

remove_pattern_properties(d) == remove_pattern_props(d)


(***************************************************************************)
(* Input documents of the four-pass repair                                 *)
(***************************************************************************)
MaxSchemas == 2
MaxRuns == 2

SchemaNames == {"Foo", "BlockId", "RpcQueryRequest", "ShardId"}

Ref(name) == Dict("$ref" :> Str(RefPrefix \o name))

SchemaShapes ==
    { EmptyDict,
      Dict("description" :> Str("hello")),
      Dict("type" :> Str("string")),
      Ref("Foo"),
      Ref("Missing"),
      Dict("anyOf" :> Lst(<<NullSchema, Ref("Foo")>>)),
      Dict("anyOf" :> Lst(<<NullSchema>>)),
      Dict("anyOf" :> Lst(<<Dict("description" :> Str("alt")),
                            Dict("type" :> Str("integer"))>>)
           @@ "description" :> Str("either")),
      Dict("anyOf" :> Lst(<<Dict("anyOf" :> Lst(<<Dict("type" :> Str("string"))>>))>>)),
      Dict("anyOf" :> Lst(<<Dict("type" :> Str("string") @@ "title" :> Str("by_hash")),
                            Ref("Missing")>>)),
      Dict("oneOf" :> Lst(<<Dict("type" :> Str("string")), NullSchema>>)),
      Dict("type" :> Str("object")
           @@ "properties" :> Dict("a" :> Ref("Missing"))
           @@ "patternProperties" :> Dict("^x" :> Dict("type" :> Str("string")))) }

SchemaTables ==
    UNION {[names -> SchemaShapes] :
             names \in {n \in SUBSET SchemaNames : Cardinality(n) <= MaxSchemas}}

RepairInputs ==
    {EmptyDict} \cup
    {Dict("components" :> Dict("schemas" :> Dict(tbl))) : tbl \in SchemaTables}

(***************************************************************************)
(* fix_openapi_spec.py main: load, four passes, save; then run again       *)
(***************************************************************************)
InitRepair ==
    /\ file \in RepairInputs
    /\ input = file
    /\ out1 = file
    /\ spec = EmptyDict
    /\ pc = "start"
    /\ runs = 0
    /\ path_order = <<>>
    /\ KtIdle
    /\ CliIdle

Load ==
    /\ pc = "start"
    /\ runs < MaxRuns
    /\ spec' = file
    /\ pc' = "loaded"
    /\ UNCHANGED <<runs, file, input, out1, path_order, kt_vars, cli_vars>>

FixEmptySchemas ==
    /\ pc = "loaded"
    /\ spec' = fix_empty_schemas(spec)
    /\ pc' = "empty_done"
    /\ UNCHANGED <<runs, file, input, out1, path_order, kt_vars, cli_vars>>

FixAnyofSchemas ==
    /\ pc = "empty_done"
    /\ spec' = fix_anyof_schemas(spec)
    /\ pc' = "anyof_done"
    /\ UNCHANGED <<runs, file, input, out1, path_order, kt_vars, cli_vars>>

FixProblematicPatterns ==
    /\ pc = "anyof_done"
    /\ spec' = fix_problematic_patterns(spec)
    /\ pc' = "patterns_done"
    /\ UNCHANGED <<runs, file, input, out1, path_order, kt_vars, cli_vars>>

RemovePatternProperties ==
    /\ pc = "patterns_done"
    /\ spec' = remove_pattern_properties(spec)
    /\ pc' = "cleaned"
    /\ UNCHANGED <<runs, file, input, out1, path_order, kt_vars, cli_vars>>

Save ==
    /\ pc = "cleaned"
    /\ file' = spec
    /\ out1' = IF runs = 0 THEN spec ELSE out1
    /\ runs' = runs + 1
    /\ pc' = "start"
    /\ UNCHANGED <<spec, input, path_order, kt_vars, cli_vars>>

NextRepair ==
    \/ Load
    \/ FixEmptySchemas
    \/ FixAnyofSchemas
    \/ FixProblematicPatterns
    \/ RemovePatternProperties
    \/ Save

SpecRepair == InitRepair /\ [][NextRepair]_vars


(***************************************************************************)
(* scripts/openapi_fixes.py: fix_openapi_spec                              *)
(***************************************************************************)
RECURSIVE EveryPath(_, _, _)
\* a faulty variant of AllMethods that records every path, with a post
\* operation or not; C5_MethodTableKeys must tell it from AllMethods
EveryPath(paths, order, n) ==
    IF n = 0 THEN <<>>
    ELSE LET path_item == Get(paths, order[n])
         IN (StripSlashes(order[n]) :>
                IF Has(path_item, "post") THEN Get(path_item, "post") ELSE path_item)
            @@ EveryPath(paths, order, n - 1)

RECURSIVE AllMethods(_, _, _)
\* the loop over spec['paths'].items(), in file order: a later path with the
\* same stripped name overwrites the earlier entry
AllMethods(paths, order, n) ==
    IF n = 0 THEN <<>>
    ELSE LET path == order[n]
             path_item == Get(paths, path)
             rest == AllMethods(paths, order, n - 1)
         IN IF Has(path_item, "post")
            THEN (StripSlashes(path) :> Get(path_item, "post")) @@ rest
            ELSE rest

SchemaContent(name) ==
    Dict("content" :> Dict("application/json" :> Dict("schema" :> Ref(name))))

SingleEndpoint(all_methods) ==
    Dict("/" :> Dict("post" :> Dict(
          "description" :> Str("NEAR JSON-RPC endpoint")
       @@ "operationId" :> Str("jsonrpc")
       @@ "x-methods" :> Dict(all_methods)
       @@ "requestBody" :> SchemaContent("JsonRpcRequest")
       @@ "responses" :> Dict("200" :>
             Put(SchemaContent("JsonRpcResponse"),
                 "description", Str("Successful response"))))))

collapse_paths(d, order) ==
    IF Has(d, "paths")
    THEN Put(d, "paths", SingleEndpoint(AllMethods(Get(d, "paths"), order, Len(order))))
    ELSE d

RECURSIVE rename_nullable(_)
\* a faulty variant of fix_nullable_types that moves nullable to x-nullable
\* instead of adding x-nullable; C6_DescriptorsExtended must tell it from
\* fix_nullable_types
rename_nullable(obj) ==
    IF IsDict(obj)
    THEN LET marked == IF /\ Has(obj, "type")
                          /\ Has(obj, "nullable")
                          /\ Truthy(Get(obj, "nullable"))
                       THEN Del(Put(obj, "x-nullable", Bool(TRUE)), "nullable")
                       ELSE obj
         IN Dict([k \in Keys(marked) |-> rename_nullable(Get(marked, k))])
    ELSE IF IsList(obj)
    THEN Lst([i \in 1..Len(obj.v) |-> rename_nullable(obj.v[i])])
    ELSE obj

RECURSIVE fix_nullable_types(_)
fix_nullable_types(obj) ==
    IF IsDict(obj)
    THEN LET marked == IF /\ Has(obj, "type")
                          /\ Has(obj, "nullable")
                          /\ Truthy(Get(obj, "nullable"))
                       THEN Put(obj, "x-nullable", Bool(TRUE))
                       ELSE obj
         IN Dict([k \in Keys(marked) |-> fix_nullable_types(Get(marked, k))])
    ELSE IF IsList(obj)
    THEN Lst([i \in 1..Len(obj.v) |-> fix_nullable_types(obj.v[i])])
    ELSE obj

\* re.sub(r'[^a-zA-Z0-9_]', '_', c)
VarNameCh(c) ==
    IF IsLowerCh(c) \/ IsUpperCh(c) \/ IsDigitCh(c) \/ c = "_" THEN c ELSE "_"

RECURSIVE VarName(_)
\* re.sub(r'[^a-zA-Z0-9_]', '_', str(val)).upper()
VarName(s) == IF s = "" THEN "" ELSE UpperCh(VarNameCh(Ch(s, 1))) \o VarName(Tail(s))

EnumVarNamesOne(schema) ==
    IF Has(schema, "enum")
    THEN Put(schema, "x-enum-varnames",
             Lst([i \in 1..Len(Get(schema, "enum").v) |->
                    Str(VarName(Get(schema, "enum").v[i].v))]))
    ELSE schema

fix_enum_naming(d) ==
    IF Has(d, "components") /\ Has(Get(d, "components"), "schemas")
    THEN WithSchemas(d, Dict([name \in Keys(Schemas(d)) |->
                               EnumVarNamesOne(Get(Schemas(d), name))]))
    ELSE d

RECURSIVE add_descriptions(_, _)
add_descriptions(obj, path) ==
    IF IsDict(obj)
    THEN LET described == IF Has(obj, "properties") /\ ~Has(obj, "description")
                          THEN Put(obj, "description",
                                   Str("Auto-generated type for " \o path))
                          ELSE obj
         IN Dict([k \in Keys(described) |->
                    add_descriptions(Get(described, k),
                                     IF path # "" THEN path \o "." \o k ELSE k)])
    ELSE IF IsList(obj)
    THEN Lst([i \in 1..Len(obj.v) |->
                add_descriptions(obj.v[i], path \o "[" \o ToString(i - 1) \o "]")])
    ELSE obj

\* the key order of the path table that json.dump writes
SavedPathOrder(d, order) == IF Has(d, "paths") THEN <<"/">> ELSE order

(***************************************************************************)
(* Input documents of openapi_fixes.fix_openapi_spec                       *)
(***************************************************************************)
MaxPaths == 2

PathNames == {"/status", "/status/", "query", "/"}

BodyWith(schema) ==
    Dict("requestBody" :> Dict("content" :> Dict("application/json" :>
            Dict("schema" :> schema))))

PathItems ==
    { Dict("post" :> Dict("operationId" :> Str("status"))),
      Dict("get" :> Dict("operationId" :> Str("health"))),
      Dict("post" :> BodyWith(
            Dict("type" :> Str("object") @@ "nullable" :> Bool(TRUE)
                 @@ "properties" :> Dict("id" :> Dict("type" :> Str("string")))))),
      Dict("post" :> BodyWith(
            Dict("type" :> Str("object") @@ "nullable" :> Bool(FALSE)
                 @@ "description" :> Str("query request")
                 @@ "properties" :> Dict("id" :> Ref("Missing"))))) }

\* the orders in which up to MaxPaths distinct path names occur in a file
PathOrders ==
    {q \in UNION {[1..n -> PathNames] : n \in 0..MaxPaths} :
        \A i, j \in 1..Len(q) : i # j => q[i] # q[j]}

Range(q) == {q[i] : i \in 1..Len(q)}

ComponentsChoices ==
    { Dict("schemas" :> Dict(
          "JsonRpcRequest" :> Dict("type" :> Str("object")
                                   @@ "properties" :> Dict("method" :> Dict("type" :> Str("string"))))
       @@ "JsonRpcResponse" :> Dict("type" :> Str("object")
                                    @@ "description" :> Str("response")))),
      Dict("schemas" :> Dict(
          "Finality" :> Dict("type" :> Str("string")
                             @@ "enum" :> Lst(<<Str("near-final"), Str("final")>>)))),
      EmptyDict }

InitCollapse ==
    /\ path_order \in PathOrders
    /\ \E has_paths \in BOOLEAN, has_components \in BOOLEAN :
         /\ (~has_paths => path_order = <<>>)
         /\ \E items \in [Range(path_order) -> PathItems], comps \in ComponentsChoices :
              /\ (~has_components => comps = EmptyDict)
              /\ file = Dict([k \in {x \in {"paths", "components"} :
                                        /\ (x = "paths" => has_paths)
                                        /\ (x = "components" => has_components)} |->
                                IF k = "paths" THEN Dict(items) ELSE comps])
    /\ input = file
    /\ out1 = file
    /\ spec = EmptyDict
    /\ pc = "start"
    /\ runs = 0
    /\ KtIdle
    /\ CliIdle

LoadSpec ==
    /\ pc = "start"
    /\ runs < MaxRuns
    /\ spec' = file
    /\ pc' = "spec_loaded"
    /\ UNCHANGED <<runs, file, input, out1, path_order, kt_vars, cli_vars>>

CollapsePaths ==
    /\ pc = "spec_loaded"
    /\ spec' = collapse_paths(spec, path_order)
    /\ pc' = "collapsed"
    /\ UNCHANGED <<runs, file, input, out1, path_order, kt_vars, cli_vars>>

FixNullableTypes ==
    /\ pc = "collapsed"
    /\ spec' = fix_nullable_types(spec)
    /\ pc' = "x_nullable_done"
    /\ UNCHANGED <<runs, file, input, out1, path_order, kt_vars, cli_vars>>

FixEnumNaming ==
    /\ pc = "x_nullable_done"
    /\ spec' = fix_enum_naming(spec)
    /\ pc' = "varnames_done"
    /\ UNCHANGED <<runs, file, input, out1, path_order, kt_vars, cli_vars>>

AddDescriptions ==
    /\ pc = "varnames_done"
    /\ spec' = add_descriptions(spec, "")
    /\ pc' = "described"
    /\ UNCHANGED <<runs, file, input, out1, path_order, kt_vars, cli_vars>>

SaveSpec ==
    /\ pc = "described"
    /\ file' = spec
    /\ path_order' = SavedPathOrder(spec, path_order)
    /\ out1' = IF runs = 0 THEN spec ELSE out1
    /\ runs' = runs + 1
    /\ pc' = "start"
    /\ UNCHANGED <<spec, input, kt_vars, cli_vars>>

NextCollapse ==
    \/ LoadSpec
    \/ CollapsePaths
    \/ FixNullableTypes
    \/ FixEnumNaming
    \/ AddDescriptions
    \/ SaveSpec

SpecCollapse == InitCollapse /\ [][NextCollapse]_vars


(***************************************************************************)
(* Regular expressions of scripts/openapi_fixes.py.  A matcher gives the   *)
(* position after the match that re finds at position i, or 0.             *)
(***************************************************************************)
Letters == {Ch(LowerLetters, i) : i \in 1..26} \cup {Ch(UpperLetters, i) : i \in 1..26}
Space == [in |-> TRUE, chars |-> {" ", "\n", "\t", "\r", "\f"}]               \* \s
Word == [in |-> TRUE, chars |-> Letters \cup {Ch(Digits, i) : i \in 1..10} \cup {"_"}] \* \w
SnakeCh == [in |-> TRUE, chars |-> {Ch(LowerLetters, i) : i \in 1..26} \cup {"_"}]
Not(c) == [in |-> FALSE, chars |-> {c}]                                      \* [^c]

InClass(c, cls) == (c \in cls.chars) = cls.in

Min(S) == CHOOSE x \in S : \A y \in S : x <= y

\* the position after the longest run of cls characters that starts at i
SpanEnd(s, i, cls) ==
    CHOOSE e \in i..(Len(s) + 1) :
        /\ \A k \in i..(e - 1) : InClass(Ch(s, k), cls)
        /\ e <= Len(s) => ~InClass(Ch(s, e), cls)

\* the literal lit stands at position i
LitAt(s, i, lit) == i + Len(lit) - 1 <= Len(s) /\ SubSeq(s, i, i + Len(lit) - 1) = lit

\* sub occurs in s[lo..hi]
Occurs(s, lo, hi, sub) ==
    \E k \in lo..(hi - Len(sub) + 1) : SubSeq(s, k, k + Len(sub) - 1) = sub

RECURSIVE Spaces(_)
\* ' ' * n
Spaces(n) == IF n <= 0 THEN "" ELSE " " \o Spaces(n - 1)

\* s.strip()
Strip(s) ==
    LET keep == {i \in 1..Len(s) : ~InClass(Ch(s, i), Space)}
    IN IF keep = {} THEN ""
       ELSE LET lo == CHOOSE i \in keep : \A j \in keep : i <= j
                hi == CHOOSE i \in keep : \A j \in keep : j <= i
            IN SubSeq(s, lo, hi)

RECURSIVE TitleFrom(_, _)
\* str.title(): a letter after a letter is lowered, any other letter raised
TitleFrom(s, previous_is_cased) ==
    IF s = "" THEN ""
    ELSE LET c == Ch(s, 1)
         IN IF c \in Letters
            THEN (IF previous_is_cased THEN LowerCh(c) ELSE UpperCh(c))
                 \o TitleFrom(Tail(s), TRUE)
            ELSE c \o TitleFrom(Tail(s), FALSE)

Title(s) == TitleFrom(s, FALSE)

RECURSIVE SplitOn(_, _)
\* s.split(sep) for a one-character sep
SplitOn(s, sep) ==
    LET at == {i \in 1..Len(s) : Ch(s, i) = sep}
    IN IF at = {} THEN <<s>>
       ELSE LET first == CHOOSE i \in at : \A j \in at : i <= j
            IN <<SubSeq(s, 1, first - 1)>> \o SplitOn(SubSeq(s, first + 1, Len(s)), sep)

RECURSIVE JoinTitled(_, _)
JoinTitled(components, k) ==
    IF k > Len(components) THEN ""
    ELSE Title(components[k]) \o JoinTitled(components, k + 1)

snake_to_camel(snake_str) ==
    LET components == SplitOn(snake_str, "_")
    IN components[1] \o JoinTitled(components, 2)

\* [a-z]+(?:_[a-z]+)+ read as far as it goes from position i
SnakeIdentEnd(s, i) ==
    LET e == SpanEnd(s, i, SnakeCh)
        ident == SubSeq(s, i, e - 1)
    IN IF /\ e > i
          /\ Ch(s, i) # "_"
          /\ Ch(s, e - 1) # "_"
          /\ Contains(ident, "_")
          /\ ~Contains(ident, "__")
       THEN e
       ELSE 0

\* val\s+([a-z]+(?:_[a-z]+)+)\s*:
FieldNameStart(s, i) == SpanEnd(s, i + 3, Space)

MatchSnakeField(s, i) ==
    IF ~LitAt(s, i, "val") \/ FieldNameStart(s, i) = i + 3 THEN 0
    ELSE LET e == SnakeIdentEnd(s, FieldNameStart(s, i))
             colon == SpanEnd(s, e, Space)
         IN IF e > 0 /\ LitAt(s, colon, ":") THEN colon + 1 ELSE 0

FieldName(s, i) ==
    SubSeq(s, FieldNameStart(s, i), SnakeIdentEnd(s, FieldNameStart(s, i)) - 1)

\* content[:match.start()].split('\n')[-1]
LastLine(s, i) ==
    LET breaks == {k \in 1..(i - 1) : Ch(s, k) = "\n"}
        from == IF breaks = {} THEN 1
                ELSE 1 + CHOOSE k \in breaks : \A j \in breaks : j <= k
    IN SubSeq(s, from, i - 1)

\* len(last_line) - len(last_line.lstrip())
Indent(last_line) == SpanEnd(last_line, 1, Space) - 1

replace_property(s, i) ==
    LET snake_name == FieldName(s, i)
        camel_name == snake_to_camel(snake_name)
        last_line == LastLine(s, i)
        indent == Indent(last_line)
    IN IF ~Contains(last_line, "@SerialName")
       THEN Spaces(indent) \o "@SerialName(\"" \o snake_name \o "\")\n"
            \o Spaces(indent) \o "val " \o camel_name \o ":"
       ELSE "val " \o camel_name \o ":"

\* :\s*Optional<([^>]+)>   and   :\s*Array<([^>]+)>
MatchGeneric(s, i, generic) ==
    IF ~LitAt(s, i, ":") THEN 0
    ELSE LET a == SpanEnd(s, i + 1, Space)
             b == a + Len(generic) + 1
             c == SpanEnd(s, b, Not(">"))
         IN IF LitAt(s, a, generic \o "<") /\ c > b /\ c <= Len(s) THEN c + 1 ELSE 0

GenericArg(s, i, generic) ==
    LET b == SpanEnd(s, i + 1, Space) + Len(generic) + 1
    IN SubSeq(s, b, SpanEnd(s, b, Not(">")) - 1)

\* ^(data\s+class\s+\w+)  and  ^(enum\s+class\s+\w+), MULTILINE off the line start test
MatchClassHead(s, i, keyword) ==
    IF ~LitAt(s, i, keyword) THEN 0
    ELSE LET a == i + Len(keyword)
             b == SpanEnd(s, a, Space)
             c == b + 5
             d == SpanEnd(s, c, Space)
             e == SpanEnd(s, d, Word)
         IN IF b > a /\ LitAt(s, b, "class") /\ d > c /\ e > d THEN e ELSE 0

AtLineStart(s, i) == i = 1 \/ Ch(s, i - 1) = "\n"

\* one @Serializable\s*\n : the blanks run is given back up to its last newline
MatchMarkerOnce(s, i) ==
    IF ~LitAt(s, i, "@Serializable") THEN 0
    ELSE LET a == i + 13
             b == SpanEnd(s, a, Space)
             breaks == {k \in a..(b - 1) : Ch(s, k) = "\n"}
         IN IF breaks = {} THEN 0
            ELSE 1 + CHOOSE k \in breaks : \A j \in breaks : j <= k

RECURSIVE MatchMarkers(_, _)
\* (@Serializable\s*\n)+
MatchMarkers(s, i) ==
    LET e == MatchMarkerOnce(s, i)
    IN IF e = 0 THEN 0
       ELSE IF MatchMarkers(s, e) > 0 THEN MatchMarkers(s, e) ELSE e

\* enum\s+class\s+(\w+)[^{]*\{([^}]+)\}
EnumBodyStart(s, i) == SpanEnd(s, MatchClassHead(s, i, "enum"), Not("{")) + 1

MatchEnum(s, i) ==
    IF MatchClassHead(s, i, "enum") = 0 THEN 0
    ELSE LET open == EnumBodyStart(s, i) - 1
             close == SpanEnd(s, open + 1, Not("}"))
         IN IF open <= Len(s) /\ close > open + 1 /\ close <= Len(s)
            THEN close + 1 ELSE 0

EnumName(s, i) ==
    LET c == SpanEnd(s, i + 4, Space) + 5
        d == SpanEnd(s, c, Space)
    IN SubSeq(s, d, MatchClassHead(s, i, "enum") - 1)

EnumBody(s, i) ==
    SubSeq(s, EnumBodyStart(s, i), SpanEnd(s, EnumBodyStart(s, i), Not("}")) - 1)

RECURSIVE ReplaceCh(_, _, _)
\* s.replace(old, new) for a one-character old
ReplaceCh(s, old, new) ==
    IF s = "" THEN ""
    ELSE (IF Ch(s, 1) = old THEN new ELSE Ch(s, 1)) \o ReplaceCh(Tail(s), old, new)

\* the text fix_enum puts for one stripped, non-empty value
FixedValue(value) ==
    IF ~Contains(value, "@SerialName")
    THEN "    @SerialName(\"" \o Lower(ReplaceCh(value, "_", "-")) \o "\")\n    " \o value
    ELSE "    " \o value

RECURSIVE FixedValues(_, _)
\* fixed_values: the stripped values that are not empty, each rewritten
FixedValues(values, k) ==
    IF k > Len(values) THEN <<>>
    ELSE LET value == Strip(values[k])
         IN (IF value # "" THEN <<FixedValue(value)>> ELSE <<>>)
            \o FixedValues(values, k + 1)

RECURSIVE Join(_, _, _)
\* sep.join(parts), from part k on
Join(parts, sep, k) ==
    IF k > Len(parts) THEN ""
    ELSE IF k = Len(parts) THEN parts[k]
    ELSE parts[k] \o sep \o Join(parts, sep, k + 1)

fix_enum(s, i) ==
    LET values == SplitOn(Strip(EnumBody(s, i)), ",")
        values_str == Join(FixedValues(values, 1), ",\n", 1)
    IN "enum class " \o EnumName(s, i) \o " {\n" \o values_str \o "\n}"

\* @(GET|POST|PUT|DELETE)\("([^"]+)"\)\s*\n\s*suspend fun (\w+)
HttpVerbs == {"GET", "POST", "PUT", "DELETE"}

FunNameStart(s, i) ==
    LET verb == CHOOSE v \in HttpVerbs : LitAt(s, i + 1, v \o "(\"")
        a == i + 1 + Len(verb) + 2
        b == SpanEnd(s, a, Not("\""))
    IN SpanEnd(s, b + 2, Space) + 12

MatchHttpCall(s, i) ==
    IF ~LitAt(s, i, "@") \/ ~\E v \in HttpVerbs : LitAt(s, i + 1, v \o "(\"") THEN 0
    ELSE LET verb == CHOOSE v \in HttpVerbs : LitAt(s, i + 1, v \o "(\"")
             a == i + 1 + Len(verb) + 2
             b == SpanEnd(s, a, Not("\""))
             c == b + 2
             d == SpanEnd(s, c, Space)
             e == SpanEnd(s, d + 12, Word)
         IN IF /\ b > a
               /\ LitAt(s, b, "\")")
               /\ Occurs(s, c, d - 1, "\n")
               /\ LitAt(s, d, "suspend fun ")
               /\ e > d + 12
            THEN e ELSE 0

replace_with_jsonrpc(s, i) ==
    "suspend fun " \o SubSeq(s, FunNameStart(s, i), MatchHttpCall(s, i) - 1)

\* \w+Api followed by a non-word character: the run of word characters at i
\* is at least four long and ends in Api
ApiNameEnd(s, i) ==
    LET e == SpanEnd(s, i, Word)
    IN IF e - i >= 4 /\ SubSeq(s, e - 3, e - 1) = "Api" THEN e ELSE 0

\* interface\s+\w+Api\s*\{
MatchInterface(s, i) ==
    IF ~LitAt(s, i, "interface") THEN 0
    ELSE LET a == SpanEnd(s, i + 9, Space)
             e == ApiNameEnd(s, a)
             brace == SpanEnd(s, e, Space)
         IN IF a > i + 9 /\ e > 0 /\ LitAt(s, brace, "{") THEN brace + 1 ELSE 0

\* retrofit\.create\(\w+Api::class\.java\)
MatchCreate(s, i) ==
    IF ~LitAt(s, i, "retrofit.create(") THEN 0
    ELSE LET e == ApiNameEnd(s, i + 16)
         IN IF e > 0 /\ LitAt(s, e, "::class.java)") THEN e + 13 ELSE 0

MatchEnd(pattern, s, i) ==
    CASE pattern = "field" -> MatchSnakeField(s, i)
      [] pattern = "optional" -> MatchGeneric(s, i, "Optional")
      [] pattern = "array" -> MatchGeneric(s, i, "Array")
      [] pattern = "data" -> IF AtLineStart(s, i) THEN MatchClassHead(s, i, "data") ELSE 0
      [] pattern = "enumhead" -> IF AtLineStart(s, i) THEN MatchClassHead(s, i, "enum") ELSE 0
      [] pattern = "markers" -> MatchMarkers(s, i)
      [] pattern = "enum" -> MatchEnum(s, i)
      [] pattern = "http" -> MatchHttpCall(s, i)
      [] pattern = "interface" -> MatchInterface(s, i)
      [] pattern = "create" -> MatchCreate(s, i)

Replacement(pattern, s, i) ==
    CASE pattern = "field" -> replace_property(s, i)
      [] pattern = "optional" -> ": " \o GenericArg(s, i, "Optional") \o "?"
      [] pattern = "array" -> ": List<" \o GenericArg(s, i, "Array") \o ">"
      [] pattern \in {"data", "enumhead"} ->
            "@Serializable\n" \o SubSeq(s, i, MatchEnd(pattern, s, i) - 1)
      [] pattern = "markers" -> "@Serializable\n"
      [] pattern = "enum" -> fix_enum(s, i)
      [] pattern = "http" -> replace_with_jsonrpc(s, i)
      [] pattern = "interface" -> "interface NearJsonRpcApi {"
      [] pattern = "create" -> "retrofit.create(NearJsonRpcApi::class.java)"

RECURSIVE re_sub(_, _, _)
\* re.sub: the leftmost match at or after position i is replaced, and the
\* search goes on behind it
re_sub(pattern, s, i) ==
    LET starts == {j \in i..Len(s) : MatchEnd(pattern, s, j) > 0}
    IN IF starts = {} THEN SubSeq(s, i, Len(s))
       ELSE SubSeq(s, i, Min(starts) - 1)
            \o Replacement(pattern, s, Min(starts))
            \o re_sub(pattern, s, MatchEnd(pattern, s, Min(starts)))

fix_imports(c) ==
    LET c1 == IF Contains(c, "@Serializable") /\ ~Contains(c, "import kotlinx.serialization")
              THEN "import kotlinx.serialization.Serializable\n" \o c
              ELSE c
    IN IF /\ Contains(c1, "@SerialName")
          /\ ~Contains(c1, "import kotlinx.serialization.SerialName")
       THEN "import kotlinx.serialization.SerialName\n" \o c1
       ELSE c1

fix_serialization_annotations(c) == re_sub("field", c, 1)

fix_nullable_types_kotlin(c) == re_sub("array", re_sub("optional", c, 1), 1)

add_serializable_annotations(c) ==
    re_sub("markers", re_sub("enumhead", re_sub("data", c, 1), 1), 1)

fix_enum_serialization(c) == re_sub("enum", c, 1)

fix_api_client_paths(c) ==
    re_sub("create", re_sub("interface", re_sub("http", c, 1), 1), 1)

(***************************************************************************)
(* Input files of the source rewrite pipeline: up to MaxLines fragments    *)
(***************************************************************************)
MaxLines == 2

Fragments ==
    { "data class Block(\n",
      "    val block_hash: String,\n",
      "    @SerialName(\"block_hash\")\n",
      "    @SerialName(\"gas_price\") val gas_price: Optional<Long>, val chunk_mask: Array<Int>\n",
      ")\n",
      "import kotlinx.serialization.Serializable\n",
      "@Serializable\n",
      "enum class TxStatus {\n    NOT_STARTED, @SerialName(\"final\") FINAL,\n    ACCOUNT_DOES_NOT_EXIST\n}\n",
      "enum class Kind(val wire: String) {\n    FULL_ACCESS(\"full_access\")\n}\n",
      "interface StatusApi {\n    @POST(\"/status\")\n    suspend fun status(): Array<String>\n}\n",
      "val api = retrofit.create(StatusApi::class.java)\n" }

RECURSIVE Concat(_, _)
Concat(parts, k) == IF k > Len(parts) THEN "" ELSE parts[k] \o Concat(parts, k + 1)

KotlinInputs ==
    {Concat(q, 1) : q \in UNION {[1..n -> Fragments] : n \in 0..MaxLines}}

(***************************************************************************)
(* fix_generated_kotlin: the body of the loop over the *.kt files, run on  *)
(* one file, then run again on what it wrote                               *)
(***************************************************************************)
DocIdle ==
    /\ file = EmptyDict
    /\ spec = EmptyDict
    /\ input = EmptyDict
    /\ out1 = EmptyDict
    /\ path_order = <<>>

InitKotlin ==
    /\ kt_file \in KotlinInputs
    /\ kt_input = kt_file
    /\ kt_out1 = kt_file
    /\ content = ""
    /\ original_content = ""
    /\ prev = ""
    /\ pc = "start"
    /\ runs = 0
    /\ DocIdle
    /\ CliIdle

ReadFile ==
    /\ pc = "start"
    /\ runs < MaxRuns
    /\ content' = kt_file
    /\ original_content' = kt_file
    /\ prev' = kt_file
    /\ pc' = "read"
    /\ UNCHANGED <<runs, kt_file, kt_input, kt_out1, doc_vars, cli_vars>>

FixImports ==
    /\ pc = "read"
    /\ prev' = content
    /\ content' = fix_imports(content)
    /\ pc' = "imports_done"
    /\ UNCHANGED <<runs, kt_file, original_content, kt_input, kt_out1, doc_vars, cli_vars>>

FixSerializationAnnotations ==
    /\ pc = "imports_done"
    /\ prev' = content
    /\ content' = fix_serialization_annotations(content)
    /\ pc' = "annotations_done"
    /\ UNCHANGED <<runs, kt_file, original_content, kt_input, kt_out1, doc_vars, cli_vars>>

FixNullableTypesKotlin ==
    /\ pc = "annotations_done"
    /\ prev' = content
    /\ content' = fix_nullable_types_kotlin(content)
    /\ pc' = "nullable_done"
    /\ UNCHANGED <<runs, kt_file, original_content, kt_input, kt_out1, doc_vars, cli_vars>>

AddSerializableAnnotations ==
    /\ pc = "nullable_done"
    /\ prev' = content
    /\ content' = add_serializable_annotations(content)
    /\ pc' = "markers_done"
    /\ UNCHANGED <<runs, kt_file, original_content, kt_input, kt_out1, doc_vars, cli_vars>>

FixEnumSerialization ==
    /\ pc = "markers_done"
    /\ prev' = content
    /\ content' = fix_enum_serialization(content)
    /\ pc' = "enums_done"
    /\ UNCHANGED <<runs, kt_file, original_content, kt_input, kt_out1, doc_vars, cli_vars>>

FixApiClientPaths ==
    /\ pc = "enums_done"
    /\ prev' = content
    /\ content' = fix_api_client_paths(content)
    /\ pc' = "paths_done"
    /\ UNCHANGED <<runs, kt_file, original_content, kt_input, kt_out1, doc_vars, cli_vars>>

WriteFile ==
    /\ pc = "paths_done"
    /\ kt_file' = IF content # original_content THEN content ELSE kt_file
    /\ kt_out1' = IF runs = 0 THEN kt_file' ELSE kt_out1
    /\ runs' = runs + 1
    /\ pc' = "start"
    /\ UNCHANGED <<content, original_content, prev, kt_input, doc_vars, cli_vars>>

NextKotlin ==
    \/ ReadFile
    \/ FixImports
    \/ FixSerializationAnnotations
    \/ FixNullableTypesKotlin
    \/ AddSerializableAnnotations
    \/ FixEnumSerialization
    \/ FixApiClientPaths
    \/ WriteFile

SpecKotlin == InitKotlin /\ [][NextKotlin]_vars


(***************************************************************************)
(* The command entry points.  An entry of the file system is absent, a     *)
(* JSON file (body: the document, order: the key order of its path table)  *)
(* or a directory holding one generated file Model.kt (body: its text).    *)
(* A main runs the passes above on what it loaded, then writes and exits.  *)
(***************************************************************************)
Absent == [kind |-> "absent", body |-> Str(""), order |-> <<>>]

SomeDocument ==
    [kind |-> "file",
     body |-> Dict("paths" :> Dict("/status" :> Dict("post" :> Dict("operationId" :> Str("status"))))
               @@ "components" :> Dict("schemas" :> Dict("AccountId" :> EmptyDict))),
     order |-> <<"/status">>]

SomeDirectory ==
    [kind |-> "dir",
     body |-> Str("data class Block(\n    val block_hash: String\n)\n"),
     order |-> <<>>]

FsPaths == {"openapi-spec.json", "build/generated", "api.json", "gen"}

Modes == {"--spec-fix", "--code-fix", "--check"}

Argvs ==
    {<<"fix_openapi_spec.py">>, <<"openapi_fixes.py">>}
    \cup {<<"fix_openapi_spec.py", path>> : path \in {"api.json", "gen"}}
    \cup {<<"openapi_fixes.py", mode>> : mode \in Modes}
    \cup {<<"openapi_fixes.py", mode, path>> : mode \in Modes, path \in {"api.json", "gen"}}

InitMain ==
    /\ argv \in Argvs
    /\ fs \in [FsPaths -> {Absent, SomeDocument, SomeDirectory}]
    /\ exit_status = -1
    /\ written = {}
    /\ pc = "start"
    /\ runs = 0
    /\ DocIdle
    /\ KtIdle

\* the process ends: sys.exit(status), an uncaught exception (status 1) or
\* the return of main (status 0)
Exit(status, new_fs, new_written) ==
    /\ exit_status' = status
    /\ fs' = new_fs
    /\ written' = new_written
    /\ pc' = "exited"
    /\ UNCHANGED <<argv, runs, doc_vars, kt_vars>>

\* Path.exists()
Exists(path) == fs[path].kind # "absent"

\* fix_openapi_spec.py main, up to json.load
MainFixOpenapiSpec ==
    /\ pc = "start"
    /\ argv[1] = "fix_openapi_spec.py"
    /\ IF Len(argv) < 2 THEN Exit(1, fs, {})
       ELSE IF ~Exists(argv[2]) THEN Exit(1, fs, {})
       ELSE IF fs[argv[2]].kind = "dir"
       THEN Exit(1, fs, {})              \* open() raises IsADirectoryError
       ELSE /\ spec' = fs[argv[2]].body
            /\ pc' = "loaded"
            /\ UNCHANGED <<runs, file, input, out1, path_order, kt_vars, cli_vars>>

\* fix_openapi_spec.py main, from json.dump on
SaveFixedSpec ==
    /\ pc = "cleaned"
    /\ Exit(0, [fs EXCEPT ![argv[2]].body = spec], {argv[2]})

\* the path argument of openapi_fixes.py main, or the default of the mode
PathArgument ==
    IF Len(argv) > 2 THEN argv[3]
    ELSE IF argv[2] = "--spec-fix" THEN "openapi-spec.json"
    ELSE "build/generated"

\* openapi_fixes.py main, up to the read of the document or of the Kotlin file
MainOpenapiFixes ==
    /\ pc = "start"
    /\ argv[1] = "openapi_fixes.py"
    /\ IF Len(argv) < 2 THEN Exit(1, fs, {})
       ELSE IF argv[2] = "--spec-fix"
       THEN IF fs[PathArgument].kind # "file"
            THEN Exit(1, fs, {})         \* open() raises: nothing catches it
            ELSE /\ spec' = fs[PathArgument].body
                 /\ path_order' = fs[PathArgument].order
                 /\ pc' = "spec_loaded"
                 /\ UNCHANGED <<runs, file, input, out1, kt_vars, cli_vars>>
       ELSE IF argv[2] = "--code-fix"
       THEN IF ~Exists(PathArgument)
            THEN Exit(0, fs, {})         \* prints and returns
            ELSE IF fs[PathArgument].kind = "file"
            THEN Exit(0, fs, {})         \* rglob finds no *.kt under a file
            ELSE /\ content' = fs[PathArgument].body.v
                 /\ original_content' = fs[PathArgument].body.v
                 /\ prev' = fs[PathArgument].body.v
                 /\ pc' = "read"
                 /\ UNCHANGED <<runs, kt_file, kt_input, kt_out1, doc_vars, cli_vars>>
       ELSE Exit(1, fs, {})

\* openapi_fixes.fix_openapi_spec, from json.dump on
SaveCollapsedSpec ==
    /\ pc = "described"
    /\ Exit(0,
            [fs EXCEPT ![PathArgument] =
                [kind |-> "file", body |-> spec,
                 order |-> SavedPathOrder(spec, path_order)]],
            {PathArgument})

\* fix_generated_kotlin, from the comparison with original_content on
WriteKotlinFile ==
    /\ pc = "paths_done"
    /\ IF content # original_content
       THEN Exit(0, [fs EXCEPT ![PathArgument].body = Str(content)],
                 {PathArgument \o "/Model.kt"})
       ELSE Exit(0, fs, {})

NextMain ==
    \/ MainFixOpenapiSpec
    \/ FixEmptySchemas
    \/ FixAnyofSchemas
    \/ FixProblematicPatterns
    \/ RemovePatternProperties
    \/ SaveFixedSpec
    \/ MainOpenapiFixes
    \/ CollapsePaths
    \/ FixNullableTypes
    \/ FixEnumNaming
    \/ AddDescriptions
    \/ SaveCollapsedSpec
    \/ FixImports
    \/ FixSerializationAnnotations
    \/ FixNullableTypesKotlin
    \/ AddSerializableAnnotations
    \/ FixEnumSerialization
    \/ FixApiClientPaths
    \/ WriteKotlinFile

SpecMain == InitMain /\ [][NextMain]_vars

(***************************************************************************)
(* Properties of the four-pass repair (specification SpecRepair).  In a    *)
(* state with pc = "cleaned", spec is the repaired document and file is    *)
(* still the document the run loaded.                                      *)
(***************************************************************************)
RECURSIVE RefTargets(_)
\* the names referred to by the $ref-carrying nodes anywhere below a node
RefTargets(node) ==
    IF IsDict(node)
    THEN (IF Has(node, "$ref") /\ Get(node, "$ref").t = "str"
          THEN {LastSegment(Get(node, "$ref").v)} ELSE {})
         \cup UNION {RefTargets(Get(node, k)) : k \in Keys(node)}
    ELSE IF IsList(node)
    THEN UNION {RefTargets(node.v[i]) : i \in 1..Len(node.v)}
    ELSE {}

\* C1: schema repair is idempotent: the document saved by a second run on
\* the output of the first run equals the output of the first run.
C1_RepairIdempotent ==
    (pc = "start" /\ runs = 2) => file = out1

\* C1, its case: a second run on the first run's output has been saved.
C1_SecondRunSaved ==
    pc = "start" /\ runs = 2 /\ input # out1

\* C3: after the four passes every named schema has one of type, enum,
\* properties or $ref, and no named schema keeps an anyOf or oneOf keyword.
C3_NoResidualSchemas ==
    pc = "cleaned" =>
        \A name \in Keys(Schemas(spec)) :
            LET schema == Get(Schemas(spec), name)
            IN /\ \E k \in {"type", "enum", "properties", "$ref"} : Has(schema, k)
               /\ ~Has(schema, "anyOf")
               /\ ~Has(schema, "oneOf")

\* C3, its case: a document holding a union schema has been repaired.
C3_UnionRepaired ==
    /\ pc = "cleaned"
    /\ \E name \in Keys(Schemas(file)) :
          \E k \in {"anyOf", "oneOf"} : Has(Get(Schemas(file), name), k)

\* C4: after the repair every $ref anywhere in the document names a key of
\* components.schemas.
C4_NoDanglingRefs ==
    pc = "cleaned" => RefTargets(spec) \subseteq Keys(Schemas(spec))

\* C4, its case: a document with a $ref to an absent name has been repaired.
C4_DanglingRepaired ==
    /\ pc = "cleaned"
    /\ ~(RefTargets(file) \subseteq Keys(Schemas(file)))

\* C10: a named schema that is exactly a description field with value d is,
\* after the four passes, a string schema whose description is still d.
C10_DescriptionKept ==
    pc = "cleaned" =>
        \A name \in Keys(Schemas(file)) :
            LET schema == Get(Schemas(file), name)
            IN Keys(schema) = {"description"} =>
                  Get(Schemas(spec), name) =
                      Dict("type" :> Str("string")
                           @@ "description" :> Get(schema, "description"))

\* C10, its case: a document with a description-only schema has been repaired.
C10_DescriptionOnlyRepaired ==
    /\ pc = "cleaned"
    /\ \E name \in Keys(Schemas(file)) :
          Keys(Get(Schemas(file), name)) = {"description"}

\* the named schemas of the loaded document that are a $ref to a named
\* schema and nothing else
RefOnlyNames ==
    {name \in Keys(Schemas(file)) :
        LET schema == Get(Schemas(file), name)
        IN /\ Keys(schema) = {"$ref"}
           /\ Get(schema, "$ref").t = "str"
           /\ StartsWith(Get(schema, "$ref").v, RefPrefix)}

\* C11: a named schema that is only a $ref is, after the four passes, left
\* as it was when the name it refers to is a named schema, and is the string
\* schema described 'Reference to <target>' when it is not.
C11_ReferenceKept ==
    pc = "cleaned" =>
        \A name \in RefOnlyNames :
            LET schema == Get(Schemas(file), name)
                target == LastSegment(Get(schema, "$ref").v)
            IN Get(Schemas(spec), name) =
                  IF target \in Keys(Schemas(file))
                  THEN schema
                  ELSE StringSchema("Reference to " \o target)

\* C11, its case: a document with a schema that is only a $ref to a named
\* schema of the document has been repaired.
C11_ValidReferenceRepaired ==
    /\ pc = "cleaned"
    /\ \E name \in RefOnlyNames :
          LastSegment(Get(Get(Schemas(file), name), "$ref").v) \in Keys(Schemas(file))

(***************************************************************************)
(* Properties of endpoint collapsing (specification SpecCollapse).  From   *)
(* pc = "collapsed" to pc = "described", spec is the document being        *)
(* rewritten and file, with its key order path_order, is still the         *)
(* document the run loaded.                                                *)
(***************************************************************************)
\* the method table of a collapsed document
XMethods(d) == Get(Get(Get(Get(d, "paths"), "/"), "post"), "x-methods")

\* the paths of the loaded document that define a post operation
PostPaths == {p \in Keys(Get(file, "paths")) : Has(Get(Get(file, "paths"), p), "post")}

\* the position of a path in the loaded document
Position(p) == CHOOSE n \in 1..Len(path_order) : path_order[n] = p

\* the post paths that no later post path with the same stripped name follows
LastPostPaths ==
    {p \in PostPaths :
        \A q \in PostPaths :
            StripSlashes(q) = StripSlashes(p) => Position(q) <= Position(p)}

RECURSIVE Extends(_, _)
\* new is old with nothing removed and nothing changed, but for x-nullable
\* set to true on nodes with a type and a true nullable, and a description
\* added to nodes with properties and none
Extends(old, new) ==
    IF IsDict(old)
    THEN /\ IsDict(new)
         /\ Keys(old) \subseteq Keys(new)
         /\ \A k \in Keys(new) :
               IF k = "x-nullable" /\ Has(old, "type") /\ GetTruthy(old, "nullable")
               THEN Get(new, k) = Bool(TRUE)
               ELSE IF k \in Keys(old)
               THEN Extends(Get(old, k), Get(new, k))
               ELSE /\ k = "description"
                    /\ Has(old, "properties")
                    /\ Get(new, k).t = "str"
                    /\ StartsWith(Get(new, k).v, "Auto-generated type for ")
    ELSE IF IsList(old)
    THEN /\ IsList(new)
         /\ Len(new.v) = Len(old.v)
         /\ \A i \in 1..Len(old.v) : Extends(old.v[i], new.v[i])
    ELSE new = old

\* C5: after collapsing a document with a path table, the path table has
\* exactly one entry and the key set of x-methods is the set of the original
\* path names stripped of '/', one entry to each original path.
C5_OneEntryPerPath ==
    (pc = "collapsed" /\ Has(file, "paths")) =>
        /\ Cardinality(Keys(Get(spec, "paths"))) = 1
        /\ Keys(XMethods(spec)) = {StripSlashes(p) : p \in Keys(Get(file, "paths"))}
        /\ Cardinality(Keys(XMethods(spec))) = Cardinality(Keys(Get(file, "paths")))

\* C5, as the code has it: after the collapsing step on a document with a
\* path table, the path table has the one entry "/", and the key set of
\* x-methods is the set of the stripped names of the original paths that
\* define a post operation.
C5_MethodTableKeys ==
    (pc = "collapsed" /\ Has(file, "paths")) =>
        /\ Keys(Get(spec, "paths")) = {"/"}
        /\ Keys(XMethods(spec)) = {StripSlashes(p) : p \in PostPaths}

\* C5, its case: a table with a path that defines post and a path that
\* does not has been collapsed.
C5_MixedTableCollapsed ==
    /\ pc = "collapsed"
    /\ Has(file, "paths")
    /\ PostPaths # {}
    /\ PostPaths # Keys(Get(file, "paths"))

\* C6: in the document the function produces, the x-methods entry of every
\* original path with a post operation equals that operation's descriptor.
C6_DescriptorsUnmodified ==
    (pc = "described" /\ Has(file, "paths")) =>
        \A p \in PostPaths :
            /\ Has(XMethods(spec), StripSlashes(p))
            /\ Get(XMethods(spec), StripSlashes(p)) = Get(Get(Get(file, "paths"), p), "post")

\* C6, as the code has it: the x-methods entry of a stripped name is, right
\* after the collapsing step, the post descriptor of the last original path
\* with that name, and from there to the end of the function it is that
\* descriptor with nothing removed or changed, only x-nullable and
\* description keys added by the later passes.
C6_DescriptorsExtended ==
    (pc \in {"collapsed", "x_nullable_done", "varnames_done", "described"}
     /\ Has(file, "paths")) =>
        \A p \in LastPostPaths :
            LET old == Get(Get(Get(file, "paths"), p), "post")
                new == Get(XMethods(spec), StripSlashes(p))
            IN /\ pc = "collapsed" => new = old
               /\ Extends(old, new)

\* C6, its case: the function has run to its end on a descriptor to which
\* the later passes add a key.
C6_DescriptorExtended ==
    /\ pc = "described"
    /\ Has(file, "paths")
    /\ \E p \in LastPostPaths :
          Get(XMethods(spec), StripSlashes(p)) # Get(Get(Get(file, "paths"), p), "post")

(***************************************************************************)
(* Properties of the source rewrite pipeline (specification SpecKotlin).   *)
(* After each pass, content is the text the pass returned and prev the     *)
(* text it was given.                                                      *)
(***************************************************************************)
\* how many times sub occurs in s
Count(s, sub) == Cardinality({i \in 1..Len(s) : LitAt(s, i, sub)})

\* the @SerialName annotation of a wire name
SerialName(name) == "@SerialName(\"" \o name \o "\")"

\* the snake_case field names of the input files
FieldNames == {"block_hash", "gas_price", "chunk_mask"}

\* the field is declared once in s, no annotation of another name stands
\* before it on its line, and s has no annotation of its name but one that
\* stands before the declaration, on its line or the line before
DeclaredOnce(s, name) ==
    /\ Count(s, "val " \o name \o ":") = 1
    /\ LET at == CHOOSE i \in 1..Len(s) : LitAt(s, i, "val " \o name \o ":")
       IN Count(LastLine(s, at), "@SerialName") = Count(LastLine(s, at), SerialName(name))
    /\ \/ Count(s, SerialName(name)) = 0
       \/ /\ Count(s, SerialName(name)) = 1
          /\ \/ Contains(s, SerialName(name) \o "\n    val " \o name \o ":")
             \/ Contains(s, SerialName(name) \o " val " \o name \o ":")

\* the name of an enum value: the identifier its text ends with, when the
\* text is an annotation and the identifier, or starts with otherwise
ValueName(value) ==
    LET bare == IF Contains(value, "@SerialName")
                THEN Strip(SubSeq(value,
                                  CHOOSE k \in 1..Len(value) : Ch(value, k) = ")" ,
                                  Len(value)))
                ELSE value
        from == IF Ch(bare, 1) = ")" THEN SpanEnd(bare, 2, Space) ELSE 1
    IN SubSeq(bare, from, SpanEnd(bare, from, Word) - 1)

\* the stripped, non-empty values of the enum declarations of s that carry
\* no annotation
BareValues(s) ==
    UNION {{Strip(SplitOn(EnumBody(s, i), ",")[k]) :
                k \in 1..Len(SplitOn(EnumBody(s, i), ","))}
           : i \in {j \in 1..Len(s) : MatchEnum(s, j) > 0}}
    \ {""}

\* C2: the pipeline is idempotent: the file a second run writes, given the
\* file the first run wrote, is that same file.
C2_PipelineIdempotent ==
    (pc = "start" /\ runs = 2) => kt_file = kt_out1

\* C2, its case: the pipeline has run on a file and again on its output.
C2_SecondRunWritten ==
    pc = "start" /\ runs = 2 /\ kt_out1 # kt_input

\* C7: a snake_case field declared once, with no annotation or with the one
\* annotation before it, is after fix_serialization_annotations declared
\* under its camelCase name and carries exactly one @SerialName annotation,
\* which holds the original name.
C7_ExactlyOneSerialName ==
    pc = "annotations_done" =>
        \A name \in FieldNames :
            DeclaredOnce(prev, name) =>
                /\ Count(content, SerialName(name)) = 1
                /\ Count(content, "val " \o snake_to_camel(name) \o ":") = 1
                /\ Count(content, "val " \o name \o ":") = 0

\* C7, its case: the pass has run on a field whose annotation stands on the
\* line before it.
C7_AnnotatedFieldRewritten ==
    /\ pc = "annotations_done"
    /\ Contains(prev, SerialName("block_hash") \o "\n    val block_hash:")

\* C8: every enum value without an annotation has, after
\* fix_enum_serialization, the annotation whose literal is its name in
\* lower case with '-' for '_' on the line before it.
C8_EnumLiteralFromName ==
    pc = "enums_done" =>
        \A value \in BareValues(prev) :
            ~Contains(value, "@SerialName") =>
                Contains(content,
                         SerialName(Lower(ReplaceCh(ValueName(value), "_", "-")))
                         \o "\n    " \o ValueName(value))

\* C8, its case: the pass has run on an enum value with a constructor
\* argument and no annotation.
C8_ConstructorValueRewritten ==
    /\ pc = "enums_done"
    /\ \E value \in BareValues(prev) :
          ~Contains(value, "@SerialName") /\ ValueName(value) # value

(***************************************************************************)
(* Properties of the command entry points (specification SpecMain).        *)
(***************************************************************************)
\* the command line names no valid mode, or no path, or a path that does
\* not exist
InvalidInvocation ==
    IF argv[1] = "fix_openapi_spec.py"
    THEN Len(argv) < 2 \/ ~Exists(argv[2])
    ELSE \/ Len(argv) < 3
         \/ argv[2] \notin {"--spec-fix", "--code-fix"}
         \/ ~Exists(argv[3])

\* C9: an invocation with an invalid mode, without a path or with a path
\* that does not exist ends with a non-zero exit status and writes nothing.
C9_InvalidInvocationFails ==
    (pc = "exited" /\ InvalidInvocation) => (exit_status # 0 /\ written = {})

\* C9, its case: openapi_fixes.py --code-fix has ended on a directory that
\* does not exist.
C9_MissingDirectoryEnded ==
    /\ pc = "exited"
    /\ Len(argv) = 3
    /\ argv[2] = "--code-fix"
    /\ ~Exists(argv[3])

=============================================================================
